---- MODULE Spec2Model ----
(***************************************************************************)
(* Smart Study Buddy: the chat client's session, query and upload          *)
(* lifecycles (App in src/unnamed/part_000, ChatInterface in               *)
(* src/my-app/src/components/ChatInterface.tsx, the later of the two       *)
(* component versions in that file, lines 274-592).                        *)
(*                                                                         *)
(* One state of the model is one state between two tasks of the UI event   *)
(* loop, with every pending render committed and its effects run.  A       *)
(* handler that awaits a network call is split at the await: the part up   *)
(* to the await is the event's action, the part after it is the call's     *)
(* resolution action.  What a handler captured from the render it was      *)
(* created in (messages, sessionId, query) travels with the pending call.  *)
(* Text is a sequence of characters or tokens, so that trim and the        *)
(* response synthesis are computed and not assumed.                        *)
(***************************************************************************)
EXTENDS Integers, Sequences, FiniteSets, TLC

VARIABLES
    messages,           \* App: useState<Message[]>([])
    currentQuery,       \* App: _currentQuery
    sessionId,          \* App: useState<string | null>(null)
    query,              \* ChatInterface: text of the query input
    isUploading,        \* ChatInterface
    isProcessingQuery,  \* ChatInterface
    uploadStatuses,     \* ChatInterface: useState<UploadStatus[]>([])
    uploadingFile,      \* ChatInterface: string | null
    processingMessage,  \* ChatInterface: the status message
    timers,             \* pending setTimeout handles of the status effect
    qCalls,             \* handleSubmit invocations suspended at their await
    uCalls,             \* handleFileUpload invocations suspended at their await
    sCalls,             \* createNewSession invocations suspended at their fetch,
                        \* each with the identifier that was active at its call
    netCalls,           \* number of fetch() calls made so far
    now                 \* the reading Date.now() returns

vars == <<messages, currentQuery, sessionId, query, isUploading,
          isProcessingQuery, uploadStatuses, uploadingFile, processingMessage,
          timers, qCalls, uCalls, sCalls, netCalls, now>>

appVars == <<messages, currentQuery, sessionId>>
uploadVars == <<isUploading, uploadStatuses, uploadingFile, uCalls>>
queryVars == <<query, isProcessingQuery, processingMessage, timers, qCalls>>

----------------------------------------------------------------------------
(* Bounds *)

\* fetch() calls of one run, the new_chat call of the mount effect included
MaxFetches == 4

\* the largest clock reading; readings are 0..MaxClock
MaxClock == 1

----------------------------------------------------------------------------
(* Values *)

Null == "null"
Undefined == "undefined"

\* !sessionId is false for a non-empty string
Truthy(v) == v \notin {Null, Undefined, ""}

\* the texts the user types: empty, whitespace only, and one that trim changes
QueryTexts == { <<>>, <<" ">>, <<" ", "a">> }

RECURSIVE TrimStart(_)
TrimStart(s) ==
    IF s = <<>> THEN s
    ELSE IF Head(s) = " " THEN TrimStart(Tail(s)) ELSE s

RECURSIVE TrimEnd(_)
TrimEnd(s) ==
    IF s = <<>> THEN s
    ELSE IF s[Len(s)] = " " THEN TrimEnd(SubSeq(s, 1, Len(s) - 1)) ELSE s

\* String.prototype.trim
Trim(s) == TrimEnd(TrimStart(s))

Thinking == "Thinking deeply about your question..."
Skimming == "Skimming through your study materials..."
SorryForTheWait == "Sorry for the wait - almost there!"
HangTight == "Even I'm trying my best... hang tight, I'll be ready soon!"

\* the delays, in seconds, of the three setTimeout calls
StatusTimers == {30, 90, 210}

TimerMessage(t) ==
    CASE t = 30 -> Skimming
      [] t = 90 -> SorryForTheWait
      [] t = 210 -> HangTight

WarningText == <<"An error occurred while processing your query. Please try again.">>

\* an awaited call that returned without a fetch: the continuation of its
\* caller is the next microtask
Settled == [state |-> "settled"]

NoFile == [name |-> "", type |-> ""]
Files == { [name |-> "a.pdf", type |-> "application/pdf"],
           [name |-> "n.txt", type |-> "text/plain"] }

UploadResults == { [message |-> "PDF processed", pages_extracted |-> 3, chunks_created |-> 7] }

----------------------------------------------------------------------------
(* Response synthesis, handleSubmitQuery lines 76-101.  An envelope is a  *)
(* record that has only the fields the backend sent; a text is a sequence  *)
(* of string tokens and concatenation is \o.                               *)

Has(data, f) == f \in DOMAIN data

\* the envelopes the query endpoint answers with in this model
Envelopes ==
    { [type |-> "full_pdf_summary",
       summaries |-> << [file |-> "a.pdf", summary |-> "S"] >>],
      [type |-> "full_pdf_summary"] }

\* the shapes of envelope the dispatch tells apart: each tag with its payload
\* and without it, an unknown tag and no tag, with a response field, with an
\* empty one and without one
SynthEnvelopes ==
    Envelopes \cup
    { [type |-> "full_pdf_summary",
       summaries |-> << [file |-> "a.pdf", summary |-> "S"],
                        [file |-> "b.pdf", summary |-> "T"] >>],
      [type |-> "page_summary",
       summaries |-> << [file |-> "a.pdf", pages |-> <<1, 2>>, summary |-> "S"] >>],
      [type |-> "page_summary",
       summaries |-> << [file |-> "a.pdf", summary |-> "S"] >>],
      [type |-> "page_summary", response |-> "R"],
      [type |-> "concept_search", expert_summary |-> "E", core_keyword |-> "K",
       results |-> << [file |-> "a.pdf", page |-> 4, relevance_score |-> "0.9",
                       preview_summary |-> "P"] >>],
      [type |-> "concept_search", expert_summary |-> "E", core_keyword |-> "K"],
      [type |-> "serp_fallback", expert_summary |-> "E", core_keyword |-> "K",
       serp_results |-> << [title |-> "T1", link |-> "L1", snippet |-> "N1"],
                           [title |-> "T2", link |-> "L2"] >>],
      [type |-> "serp_fallback", expert_summary |-> "E", core_keyword |-> "K",
       serp_results |-> << >>],
      [type |-> "serp_fallback", expert_summary |-> "E", core_keyword |-> "K"],
      [type |-> "serp_fallback"],
      [type |-> "error", response |-> "R"],
      [type |-> "error"],
      [type |-> "other", response |-> "R"],
      [type |-> "other", response |-> ""],
      [type |-> "other", detail |-> "D"],
      [response |-> "R"],
      [detail |-> "D"] }

\* Array.prototype.join
RECURSIVE Join(_, _)
Join(parts, sep) ==
    IF parts = <<>> THEN <<>>
    ELSE IF Len(parts) = 1 THEN parts[1]
    ELSE parts[1] \o sep \o Join(Tail(parts), sep)

\* a value interpolated into a template string
Interp(data, f) == IF Has(data, f) THEN data[f] ELSE Undefined

\* JSON.stringify of an envelope: the scalar keys it has, in order
StringifyKeys == <<"type", "detail", "response", "expert_summary", "core_keyword">>

RECURSIVE StringifyFrom(_, _)
StringifyFrom(data, i) ==
    IF i > Len(StringifyKeys) THEN <<>>
    ELSE (IF Has(data, StringifyKeys[i])
          THEN <<"\"", StringifyKeys[i], "\":\"", data[StringifyKeys[i]], "\"">>
          ELSE <<>>) \o StringifyFrom(data, i + 1)

Stringify(data) == <<"{">> \o StringifyFrom(data, 1) \o <<"}">>

TagOf(data) == IF Has(data, "type") THEN data.type ELSE Undefined

\* whether computing responseText raises a TypeError (.map of undefined)
SynthesisThrows(data) ==
    \/ TagOf(data) \in {"full_pdf_summary", "page_summary"} /\ ~Has(data, "summaries")
    \/ TagOf(data) = "concept_search" /\ ~Has(data, "results")

SummaryBlock(s) == <<"**", s.file, "**", "\n\n", s.summary>>

PagesText(s) ==
    IF Has(s, "pages")
    THEN Join([i \in 1..Len(s.pages) |-> <<ToString(s.pages[i])>>], <<", ">>)
    ELSE <<Undefined>>

PageSummaryBlock(s) ==
    <<"**", s.file, " - Pages ">> \o PagesText(s) \o <<"**", "\n\n", s.summary>>

Preamble(data, heading) ==
    <<"**Expert Summary:**\n", Interp(data, "expert_summary"),
      "\n\n**Core Keyword:** ", Interp(data, "core_keyword"), "\n\n", heading, "\n\n">>

SearchItem(r, idx) ==
    <<ToString(idx), ". **", r.file, " - Page ", ToString(r.page),
      "** (Relevance: ", r.relevance_score, ")\n", r.preview_summary>>

\* a serp item numbered by the index of map, which starts at 0
SerpItemFromZero(r, idx) ==
    <<ToString(idx - 1), ". [", r.title, "](", r.link, ")\n">>
      \o (IF Has(r, "snippet") /\ r.snippet # "" THEN <<r.snippet>> ELSE <<>>)

\* `${idx + 1}. [${r.title}](${r.link})\n${r.snippet || ''}`, idx + 1 given
SerpItem(r, idx) ==
    <<ToString(idx), ". [", r.title, "](", r.link, ")\n">>
      \o (IF Has(r, "snippet") /\ r.snippet # "" THEN <<r.snippet>> ELSE <<>>)

SerpList(data) ==
    IF Has(data, "serp_results")
    THEN Join([i \in 1..Len(data.serp_results) |-> SerpItem(data.serp_results[i], i)],
              <<"\n\n">>)
    ELSE <<>>

\* responseText of handleSubmitQuery, where SynthesisThrows(data) is false
ResponseText(data) ==
    CASE TagOf(data) = "full_pdf_summary" ->
           Join([i \in 1..Len(data.summaries) |-> SummaryBlock(data.summaries[i])],
                <<"\n\n---\n\n">>)
      [] TagOf(data) = "page_summary" ->
           Join([i \in 1..Len(data.summaries) |-> PageSummaryBlock(data.summaries[i])],
                <<"\n\n---\n\n">>)
      [] TagOf(data) = "concept_search" ->
           Preamble(data, "**Relevant Results:**")
             \o Join([i \in 1..Len(data.results) |-> SearchItem(data.results[i], i)],
                     <<"\n\n">>)
      [] TagOf(data) = "serp_fallback" ->
           Preamble(data, "**Web Results:**")
             \o (IF SerpList(data) # <<>> THEN SerpList(data)
                 ELSE <<"No results found.">>)
      [] TagOf(data) = "error" -> <<Interp(data, "response")>>
      [] OTHER ->
           IF Has(data, "response") /\ data.response # ""
           THEN <<data.response>> ELSE Stringify(data)

----------------------------------------------------------------------------
Init ==
    /\ messages = <<>>
    /\ currentQuery = <<>>
    /\ sessionId = Null
    /\ query = <<>>
    /\ isUploading = FALSE
    /\ isProcessingQuery = FALSE
    /\ uploadStatuses = <<>>
    /\ uploadingFile = Null
    /\ processingMessage = Thinking
    /\ timers = {}
    /\ qCalls = <<>>
    /\ uCalls = <<>>
    /\ sCalls = { [k |-> 1, before |-> Null] }   \* the mount effect's createNewSession
    /\ netCalls = 1
    /\ now = 0

----------------------------------------------------------------------------
(* A microtask is pending: an awaited call has already settled and its     *)
(* continuation runs before the event loop takes any other task.           *)
MicrotaskPending ==
    \/ \E i \in 1..Len(qCalls) : qCalls[i] = Settled
    \/ \E i \in 1..Len(uCalls) : uCalls[i] = Settled

\* s without its i-th element
RemoveAt(s, i) == SubSeq(s, 1, i - 1) \o SubSeq(s, i + 1, Len(s))

\* the requests that are on the network
InFlight ==
    <<SelectSeq(qCalls, LAMBDA c : c.state = "fetch"),
      SelectSeq(uCalls, LAMBDA c : c.state = "fetch"), sCalls>>

\* one more fetch() may be made
CanFetch == netCalls < MaxFetches

\* the effect on isProcessingQuery, run as the flag turns true (lines 313-318)
StatusEffectStart ==
    /\ processingMessage' = Thinking
    /\ timers' = StatusTimers

\* a cleanup that clears only the timer declared outside the if
CleanupLeavesInner == {90, 210}

\* the timers the effect's cleanup leaves pending (lines 320-324)
CleanupLeaves == {}

\* the effect's cleanup, run as the flag turns false
StatusEffectCleanup ==
    /\ timers' = timers \cap CleanupLeaves
    /\ UNCHANGED processingMessage

----------------------------------------------------------------------------
(* ChatInterface *)

\* onChange of the query input, which is disabled while either flag is set
SetQuery(q) ==
    /\ ~MicrotaskPending
    /\ ~(isUploading \/ isProcessingQuery)
    /\ query' = q
    /\ UNCHANGED <<appVars, uploadVars, isProcessingQuery, processingMessage,
                   timers, qCalls, sCalls, netCalls, now>>

\* the condition of handleSubmit as the earlier version of the component
\* had it (lines 33-39 of the file): no test of a query in flight
AcceptsEarlier(text, uploading, processing) == Trim(text) # <<>> /\ ~uploading

\* the condition of handleSubmit (line 330), of the three values it reads
Accepts(text, uploading, processing) ==
    Trim(text) # <<>> /\ ~uploading /\ ~processing

HandleSubmitGuard == Accepts(query, isUploading, isProcessingQuery)

\* the condition of handleSubmitQuery's early return (line 55)
SessionAbsent == ~Truthy(sessionId)

\* handleSubmit up to its await, with handleSubmitQuery up to its fetch
Submit ==
    /\ ~MicrotaskPending
    /\ (HandleSubmitGuard /\ ~SessionAbsent) => CanFetch
    /\ IF HandleSubmitGuard
       THEN /\ isProcessingQuery' = TRUE
            /\ StatusEffectStart
            /\ IF SessionAbsent
               THEN /\ qCalls' = Append(qCalls, Settled)
                    /\ UNCHANGED <<currentQuery, netCalls>>
               ELSE /\ currentQuery' = query
                    /\ qCalls' = Append(qCalls,
                                   [state |-> "fetch", query |-> query,
                                    messages |-> messages, sessionId |-> sessionId])
                    /\ netCalls' = netCalls + 1
            /\ UNCHANGED <<messages, sessionId, query, uploadVars, sCalls, now>>
       ELSE UNCHANGED vars

\* the rest of handleSubmit after onSubmitQuery settled (lines 334-337)
SubmitFinish(i) ==
    /\ query' = <<>>
    /\ isProcessingQuery' = FALSE
    /\ StatusEffectCleanup
    /\ qCalls' = RemoveAt(qCalls, i)

\* handleSubmitQuery returned at its session guard: handleSubmit resumes
SubmitReturned(i) ==
    /\ qCalls[i] = Settled
    /\ SubmitFinish(i)
    /\ UNCHANGED <<appVars, uploadVars, sCalls, netCalls, now>>

\* what the query fetch settles with
QueryReplies ==
    { [kind |-> "rejected"], [kind |-> "unreadable"] }
      \cup { [kind |-> "json", data |-> d] : d \in Envelopes }

QueryFails(reply) == reply.kind # "json" \/ SynthesisThrows(reply.data)

\* a catch branch that shows the text it logs instead of the warning
ErrorMessageLogged(q) ==
    [id |-> ToString(now), query |-> q,
     response |-> <<"Error submitting query:">>, timestamp |-> now]

\* the Message of the catch branch (lines 114-119)
ErrorMessage(q) ==
    [id |-> ToString(now), query |-> q, response |-> WarningText, timestamp |-> now]

\* a handleSubmitQuery that records the trimmed text of the query
NewMessageTrimmed(q, reply) ==
    IF QueryFails(reply) THEN ErrorMessage(Trim(q))
    ELSE [id |-> ToString(now), query |-> Trim(q),
          response |-> ResponseText(reply.data), timestamp |-> now]

\* the Message handleSubmitQuery builds (lines 103-108 and 114-119)
NewMessage(q, reply) ==
    IF QueryFails(reply) THEN ErrorMessage(q)
    ELSE [id |-> ToString(now), query |-> q,
          response |-> ResponseText(reply.data), timestamp |-> now]

\* the query fetch settles: the rest of handleSubmitQuery, then of handleSubmit
QueryResolve(i, reply) ==
    /\ ~MicrotaskPending
    /\ qCalls[i].state = "fetch"
    /\ messages' = Append(qCalls[i].messages, NewMessage(qCalls[i].query, reply))
    /\ SubmitFinish(i)
    /\ UNCHANGED <<currentQuery, sessionId, uploadVars, sCalls, netCalls, now>>

\* a status timer expires: the one with the least delay first
TimerFire ==
    /\ ~MicrotaskPending
    /\ timers # {}
    /\ LET t == CHOOSE x \in timers : \A y \in timers : x <= y
       IN /\ processingMessage' = TimerMessage(t)
          /\ timers' = timers \ {t}
    /\ UNCHANGED <<appVars, uploadVars, query, isProcessingQuery, qCalls,
                   sCalls, netCalls, now>>

\* a finally block that resets the flag and not the file name
UploadFinishKeepsName(i) ==
    /\ isUploading' = FALSE
    /\ UNCHANGED uploadingFile
    /\ uCalls' = RemoveAt(uCalls, i)

\* the finally block of handleFileUpload (lines 368-374); the value of the
\* file input, which it resets, is the browser's and not carried here
UploadFinish(i) ==
    /\ isUploading' = FALSE
    /\ uploadingFile' = Null
    /\ uCalls' = RemoveAt(uCalls, i)

\* onChange of the file input, which is disabled while isUploading:
\* handleFileUpload up to its await, with handleUploadPDF up to its fetch
SelectFile(file) ==
    /\ ~MicrotaskPending
    /\ ~isUploading
    /\ (file.type = "application/pdf" /\ ~SessionAbsent) => CanFetch
    /\ IF file = NoFile \/ file.type # "application/pdf"
       THEN UNCHANGED vars
       ELSE /\ isUploading' = TRUE
            /\ uploadingFile' = file.name
            /\ IF SessionAbsent
               THEN uCalls' = Append(uCalls, Settled) /\ UNCHANGED netCalls
               ELSE /\ uCalls' = Append(uCalls,
                                   [state |-> "fetch", file |-> file,
                                    sessionId |-> sessionId])
                    /\ netCalls' = netCalls + 1
            /\ UNCHANGED <<appVars, queryVars, uploadStatuses, sCalls, now>>

\* handleUploadPDF threw at its session guard: catch, then finally
UploadThrown(i) ==
    /\ uCalls[i] = Settled
    /\ UploadFinish(i)
    /\ UNCHANGED <<appVars, queryVars, uploadStatuses, sCalls, netCalls, now>>

\* what the upload fetch settles with
UploadReplies ==
    { [kind |-> "rejected"], [kind |-> "notOk"], [kind |-> "unreadable"] }
      \cup { [kind |-> "ok", data |-> d] : d \in UploadResults }

\* the UploadStatus of lines 355-362
NewStatus(file, result) ==
    [id |-> ToString(now), filename |-> file.name, message |-> result.message,
     pagesExtracted |-> result.pages_extracted,
     chunksCreated |-> result.chunks_created, timestamp |-> now]

\* a handleUploadPDF without the test of response.ok: the body of a refused
\* upload is taken for a result
UploadResolveUnchecked(i, reply) ==
    /\ ~MicrotaskPending
    /\ uCalls[i].state = "fetch"
    /\ uploadStatuses' =
         IF reply.kind = "ok"
         THEN Append(uploadStatuses, NewStatus(uCalls[i].file, reply.data))
         ELSE IF reply.kind = "notOk"
         THEN Append(uploadStatuses,
                     NewStatus(uCalls[i].file,
                               [message |-> Undefined, pages_extracted |-> 0,
                                chunks_created |-> 0]))
         ELSE uploadStatuses
    /\ UploadFinish(i)
    /\ UNCHANGED <<appVars, queryVars, sCalls, netCalls, now>>

\* the upload fetch settles: the rest of handleUploadPDF and of handleFileUpload
UploadResolve(i, reply) ==
    /\ ~MicrotaskPending
    /\ uCalls[i].state = "fetch"
    /\ uploadStatuses' =
         IF reply.kind = "ok"
         THEN Append(uploadStatuses, NewStatus(uCalls[i].file, reply.data))
         ELSE uploadStatuses
    /\ UploadFinish(i)
    /\ UNCHANGED <<appVars, queryVars, sCalls, netCalls, now>>

\* prev.filter(status => status.id !== id)
WithoutId(statuses, id) == SelectSeq(statuses, LAMBDA st : st.id # id)

\* the dismiss button of the entry at position i
RemoveStatus(i) ==
    /\ ~MicrotaskPending
    /\ uploadStatuses' = WithoutId(uploadStatuses, uploadStatuses[i].id)
    /\ UNCHANGED <<appVars, queryVars, isUploading, uploadingFile, uCalls,
                   sCalls, netCalls, now>>

----------------------------------------------------------------------------
(* App *)

\* the identifier the backend issues when the new_chat request is the k-th fetch
IssuedId(k) == ToString(k)

\* handleNewChat up to the fetch of createNewSession
NewChat ==
    /\ ~MicrotaskPending
    /\ CanFetch
    /\ messages' = <<>>
    /\ currentQuery' = <<>>
    /\ sCalls' = sCalls \cup { [k |-> netCalls + 1, before |-> sessionId] }
    /\ netCalls' = netCalls + 1
    /\ UNCHANGED <<sessionId, queryVars, uploadVars, now>>

\* what the new_chat fetch settles with: a body with session_id, a body
\* without one, or no readable body
SessionReplies == {"ok", "noId", "rejected"}

\* sessionId after createNewSession has settled (lines 42-51)
SessionAfter(k, reply) ==
    CASE reply = "ok" -> IssuedId(k)
      [] reply = "noId" -> Undefined
      [] reply = "rejected" -> sessionId

\* a new_chat fetch settles: the rest of createNewSession
SessionResolve(c, reply) ==
    /\ ~MicrotaskPending
    /\ c \in sCalls
    /\ sessionId' = SessionAfter(c.k, reply)
    /\ sCalls' = sCalls \ {c}
    /\ UNCHANGED <<messages, currentQuery, queryVars, uploadVars, netCalls, now>>

\* time passes: Date.now() reads one more
Tick ==
    /\ ~MicrotaskPending
    /\ now < MaxClock
    /\ now' = now + 1
    /\ UNCHANGED <<appVars, queryVars, uploadVars, sCalls, netCalls>>

----------------------------------------------------------------------------
Next ==
    \/ \E q \in QueryTexts : SetQuery(q)
    \/ Submit
    \/ \E i \in 1..Len(qCalls) : SubmitReturned(i)
    \/ \E i \in 1..Len(qCalls), reply \in QueryReplies : QueryResolve(i, reply)
    \/ TimerFire
    \/ \E file \in Files \cup {NoFile} : SelectFile(file)
    \/ \E i \in 1..Len(uCalls) : UploadThrown(i)
    \/ \E i \in 1..Len(uCalls), reply \in UploadReplies : UploadResolve(i, reply)
    \/ \E i \in 1..Len(uploadStatuses) : RemoveStatus(i)
    \/ NewChat
    \/ \E c \in sCalls, reply \in SessionReplies : SessionResolve(c, reply)
    \/ Tick

Spec == Init /\ [][Next]_vars

\* A suspended handler resumes: its awaited call settles, by a reply or by an
\* early return, and the continuation gets its turn on the event loop,
\* however many other events are handled meanwhile.  There is one condition
\* for handleSubmit and one for handleFileUpload.  That every fetch settles
\* is the assumption of the liveness claim.
FairSpec ==
    /\ Spec
    /\ SF_vars(\/ \E i \in 1..Len(qCalls) : SubmitReturned(i)
               \/ \E i \in 1..Len(qCalls), reply \in QueryReplies : QueryResolve(i, reply))
    /\ SF_vars(\/ \E i \in 1..Len(uCalls) : UploadThrown(i)
               \/ \E i \in 1..Len(uCalls), reply \in UploadReplies : UploadResolve(i, reply))

\* The response synthesis on its own: a query is in flight, sent from the
\* first render after the session was created, and its fetch settles with any
\* of the envelope shapes.
SynthInit ==
    /\ messages = <<>>
    /\ currentQuery = <<" ", "a">>
    /\ sessionId = IssuedId(1)
    /\ query = <<" ", "a">>
    /\ isUploading = FALSE
    /\ isProcessingQuery = TRUE
    /\ uploadStatuses = <<>>
    /\ uploadingFile = Null
    /\ processingMessage = Thinking
    /\ timers = StatusTimers
    /\ qCalls = << [state |-> "fetch", query |-> <<" ", "a">>,
                    messages |-> <<>>, sessionId |-> IssuedId(1)] >>
    /\ uCalls = <<>>
    /\ sCalls = {}
    /\ netCalls = 2
    /\ now \in 0..MaxClock

SynthNext ==
    \/ \E i \in 1..Len(qCalls), data \in SynthEnvelopes :
         QueryResolve(i, [kind |-> "json", data |-> data])
    \/ TimerFire
    \/ Tick

SynthSpec == SynthInit /\ [][SynthNext]_vars

----------------------------------------------------------------------------
(* Claims *)

NonBlank(text) == Trim(text) # <<>>

\* the Message at the end of a log
Last(log) == log[Len(log)]

\* handleSubmit takes the submission and a session is present: a query is sent
QueryAccepted == Submit /\ HandleSubmitGuard /\ ~SessionAbsent

\* C1: a query q that is non-empty after trimming, submitted once from Idle
\* with a session present, puts exactly one new Message in the log, when its
\* call settles and whether the call succeeds or fails, and that Message has
\* query = q.  Step by step: the accepted submission sends one request that
\* carries q and leaves the log alone; the log changes only as a query
\* settles or new chat clears it; as the query settles the log becomes the
\* log of the submission with one Message more, whose query is q, which is
\* one entry more than it held unless new chat cleared it in between.
C1_OneMessagePerQuery ==
    [][ /\ QueryAccepted =>
             /\ NonBlank(query) /\ qCalls = <<>> /\ uCalls = <<>>
             /\ Len(qCalls') = 1
             /\ qCalls'[1].query = query /\ qCalls'[1].messages = messages
             /\ messages' = messages
        /\ messages' # messages =>
             \/ messages' = <<>>
             \/ \E i \in 1..Len(qCalls) :
                  qCalls[i].state = "fetch" /\ qCalls' = RemoveAt(qCalls, i)
        /\ \A i \in 1..Len(qCalls) :
             (qCalls[i].state = "fetch" /\ qCalls' = RemoveAt(qCalls, i)) =>
               /\ Len(messages') = Len(qCalls[i].messages) + 1
               /\ SubSeq(messages', 1, Len(qCalls[i].messages)) = qCalls[i].messages
               /\ Last(messages').query = qCalls[i].query
               /\ messages = qCalls[i].messages => Len(messages') = Len(messages) + 1
      ]_vars

\* a query has settled, by success and then by failure: the log holds the
\* two Messages, each with the text that was submitted
C1_Witness ==
    /\ Len(messages) = 2 /\ qCalls = <<>>
    /\ messages[1].response # WarningText /\ messages[1].query = <<" ", "a">>
    /\ messages[2].response = WarningText /\ messages[2].query = <<" ", "a">>

\* C2: a submit event that arrives while a query or an upload is in flight
\* sends no request and leaves the Message and the UploadStatus sequences as
\* they were; so no two queries are ever in flight.
C2_BusySubmitIgnored ==
    [][ /\ (Submit /\ (isProcessingQuery \/ isUploading)) =>
             UNCHANGED <<messages, uploadStatuses, InFlight>>
        /\ Len(qCalls') <= 1
      ]_vars

\* a query and an upload are both in flight and the input still holds a text
\* that passes the test of the text: a submit here is refused by the flags
C2_Witness ==
    /\ isProcessingQuery /\ isUploading /\ NonBlank(query)
    /\ Len(InFlight[1]) = 1 /\ Len(InFlight[2]) = 1

\* C3: the query-in-flight flag and the upload-in-flight flag are never both
\* true, a file selected while a query is in flight included.
C3_OneOperationAtATime == ~(isProcessingQuery /\ isUploading)

\* C4: new chat empties the Message sequence, results in a session identifier
\* different from the one that was active before it, and leaves the
\* UploadStatus list as it was.  The identifier it results in is the one in
\* place as its createNewSession call has settled; the claim is read of a new
\* chat taken while an identifier is active.
C4_NewChatFreshSession ==
    [][ /\ NewChat => messages' = <<>> /\ uploadStatuses' = uploadStatuses
        /\ \A c \in sCalls, reply \in SessionReplies :
             (c.k > 1 /\ Truthy(c.before) /\ SessionResolve(c, reply)) =>
               sessionId' # c.before /\ uploadStatuses' = uploadStatuses
      ]_vars

\* C5: as the call of an accepted query fails (the fetch rejects or the body
\* cannot be read) exactly one Message is appended, its response the fixed
\* warning text and its query the submitted text; the query-in-flight flag is
\* false again, and a non-empty submission is accepted from then on: the flag
\* of the query lifecycle no longer refuses one.
C5_FailureAppendsWarning ==
    [][ \A i \in 1..Len(qCalls), reply \in QueryReplies :
          (reply.kind # "json" /\ QueryResolve(i, reply)) =>
            /\ Len(messages') = Len(qCalls[i].messages) + 1
            /\ SubSeq(messages', 1, Len(qCalls[i].messages)) = qCalls[i].messages
            /\ Last(messages').response = WarningText
            /\ Last(messages').query = qCalls[i].query
            /\ isProcessingQuery' = FALSE
            /\ \A text \in QueryTexts :
                 NonBlank(text) => Accepts(text, FALSE, isProcessingQuery')
      ]_vars

\* a query failed, its warning is in the log, and the next submission was
\* accepted: its request is in flight
C5_Witness ==
    /\ Len(messages) = 1 /\ messages[1].response = WarningText
    /\ isProcessingQuery /\ ~isUploading
    /\ Len(InFlight[1]) = 1 /\ InFlight[1][1].messages = messages

\* C6: a submission with empty or whitespace-only text, or with no session
\* identifier, is rejected with no state change and no network call: the
\* Message sequence, the in-flight flags, the status message and the text of
\* the query input are the same after the event as before it.  The event ends
\* as handleSubmit has run to its end; the flag it holds while it runs is
\* compared at that end.
C6_RejectedSubmissionChangesNothing ==
    [][ /\ (Submit /\ ~NonBlank(query)) =>
             UNCHANGED <<messages, isUploading, isProcessingQuery,
                         processingMessage, query, InFlight>>
        /\ (Submit /\ SessionAbsent) =>
             UNCHANGED <<messages, isUploading, processingMessage, query, InFlight>>
        /\ \A i \in 1..Len(qCalls) :
             SubmitReturned(i) =>
               /\ isProcessingQuery' = FALSE
               /\ UNCHANGED <<messages, isUploading, processingMessage, query, InFlight>>
      ]_vars

\* C7: whenever a createSession call fails at the backend, at startup or by
\* new chat, the session identifier is null afterwards, and a query or an
\* upload attempted while it is absent sends no request.  The claim is read
\* of a call during which no other call has changed the identifier.
C7_FailedSessionIsNull ==
    [][ /\ \A c \in sCalls, reply \in SessionReplies \ {"ok"} :
             (sessionId = c.before /\ SessionResolve(c, reply)) =>
               ~Truthy(sessionId')
        /\ (SessionAbsent /\ (Submit \/ \E file \in Files : SelectFile(file))) =>
             InFlight' = InFlight
      ]_vars

\* C8: dismissing an UploadStatus entry removes exactly the one entry the
\* user dismissed and leaves every other entry in place and in order.
C8_DismissRemovesOne ==
    [][ \A i \in 1..Len(uploadStatuses) :
          RemoveStatus(i) => uploadStatuses' = RemoveAt(uploadStatuses, i)
      ]_vars

\* C9: once the query lifecycle has left Submitting, by success or by
\* failure, none of the three status timers is pending, so no timer callback
\* changes the status message after the resolution and none of an earlier
\* submission is pending as a later one begins.
C9_NoTimerAfterResolution ==
    [][ /\ ~isProcessingQuery' => timers' = {}
        /\ (~isProcessingQuery /\ ~isProcessingQuery') =>
             processingMessage' = processingMessage
        /\ (~isProcessingQuery /\ isProcessingQuery') =>
             timers = {} /\ timers' = StatusTimers /\ processingMessage' = Thinking
      ]_vars

\* a query settled after its first timer had fired and while the other two
\* were pending: the message the timer set stays and nothing is pending
C9_Witness ==
    /\ ~isProcessingQuery /\ qCalls = <<>> /\ Len(messages) = 1
    /\ processingMessage = Skimming /\ timers = {}

\* C10: given that every fetch settles, every accepted query and every
\* accepted upload returns its lifecycle to Idle (flag false, uploading-file
\* name cleared), on success, on a transport failure, on a non-success
\* status, with the session absent, and when the synthesis of the response
\* throws.
C10_BackToIdle ==
    /\ isProcessingQuery ~> ~isProcessingQuery
    /\ isUploading ~> (~isUploading /\ uploadingFile = Null)

\* an upload was accepted with the session absent while a query that was sent
\* under a session is still in flight
C10_Witness ==
    /\ isUploading /\ uploadingFile = "a.pdf" /\ uCalls = <<Settled>>
    /\ isProcessingQuery /\ Len(InFlight[1]) = 1

\* C11: the UploadStatus list gains an entry only as an upload call completes
\* successfully, exactly one entry per success and at the end of the list, and
\* loses an entry only by a dismissal; a rejected file type, a failed upload,
\* an upload with the session absent, a query that settles and new chat
\* neither add nor remove an entry.
C11_StatusesBySuccessAndDismissal ==
    [][ /\ uploadStatuses' # uploadStatuses =>
             \/ \E i \in 1..Len(uCalls), d \in UploadResults :
                  UploadResolve(i, [kind |-> "ok", data |-> d])
             \/ \E i \in 1..Len(uploadStatuses) : RemoveStatus(i)
        /\ \A i \in 1..Len(uCalls), d \in UploadResults :
             UploadResolve(i, [kind |-> "ok", data |-> d]) =>
               /\ Len(uploadStatuses') = Len(uploadStatuses) + 1
               /\ SubSeq(uploadStatuses', 1, Len(uploadStatuses)) = uploadStatuses
               /\ Last(uploadStatuses').filename = uCalls[i].file.name
        /\ \A i \in 1..Len(uploadStatuses) :
             RemoveStatus(i) => Len(uploadStatuses') < Len(uploadStatuses)
        /\ ( \/ \E file \in Files \cup {NoFile} : SelectFile(file)
             \/ \E i \in 1..Len(uCalls) : UploadThrown(i)
             \/ \E i \in 1..Len(uCalls), reply \in UploadReplies :
                  reply.kind # "ok" /\ UploadResolve(i, reply)
             \/ \E i \in 1..Len(qCalls), reply \in QueryReplies : QueryResolve(i, reply)
             \/ \E i \in 1..Len(qCalls) : SubmitReturned(i)
             \/ NewChat
             \/ \E c \in sCalls, reply \in SessionReplies : SessionResolve(c, reply) ) =>
               uploadStatuses' = uploadStatuses
      ]_vars

\* an upload succeeded and the next one was refused by the backend: the list
\* holds the one entry of the success
C11_Witness ==
    /\ Len(uploadStatuses) = 1 /\ uploadStatuses[1].filename = "a.pdf"
    /\ netCalls = 3 /\ uCalls = <<>> /\ qCalls = <<>> /\ sCalls = {}
    /\ ~isUploading /\ sessionId = IssuedId(1) /\ messages = <<>>

\* the tags the dispatch of handleSubmitQuery has a branch for
KnownTags == {"full_pdf_summary", "page_summary", "concept_search",
              "serp_fallback", "error"}

\* a recognised tag whose own payload is missing
PayloadMissing(data) ==
    \/ TagOf(data) \in {"full_pdf_summary", "page_summary"} /\ ~Has(data, "summaries")
    \/ TagOf(data) = "concept_search" /\ ~Has(data, "results")

\* the response field if the envelope has one, else the serialized envelope
FallbackText(data) ==
    IF Has(data, "response") THEN <<data.response>> ELSE Stringify(data)

\* C12: for any envelope of the query endpoint, one with a recognised tag and
\* without the payload of that tag included (full_pdf_summary or page_summary
\* without summaries, concept_search without results), the synthesis of the
\* response does not throw, so the Message appended is not the warning of the
\* catch branch; where the tag is not recognised or its payload is missing,
\* the response of that Message is the response field of the envelope if it
\* has one and the serialized envelope otherwise.
C12_SynthesisFallsBack ==
    [][ \A i \in 1..Len(qCalls), data \in SynthEnvelopes :
          QueryResolve(i, [kind |-> "json", data |-> data]) =>
            /\ Last(messages').response # WarningText
            /\ (TagOf(data) \notin KnownTags \/ PayloadMissing(data)) =>
                 Last(messages').response = FallbackText(data)
      ]_vars

\* the results of a serp_fallback envelope, numbered from 1 in list order, the
\* first n of them
RECURSIVE Enumerated(_, _)
Enumerated(results, n) ==
    IF n = 0 THEN <<>>
    ELSE Enumerated(results, n - 1)
           \o (IF n > 1 THEN <<"\n\n">> ELSE <<>>)
           \o <<ToString(n), ". [", results[n].title, "](", results[n].link, ")\n">>
           \o (IF "snippet" \in DOMAIN results[n] THEN <<results[n].snippet>> ELSE <<>>)

\* the text the claim gives for a serp_fallback envelope
SerpExpected(data) ==
    <<"**Expert Summary:**\n", Interp(data, "expert_summary"),
      "\n\n**Core Keyword:** ", Interp(data, "core_keyword"),
      "\n\n", "**Web Results:**", "\n\n">>
      \o (IF Has(data, "serp_results") /\ data.serp_results # <<>>
          THEN Enumerated(data.serp_results, Len(data.serp_results))
          ELSE <<"No results found.">>)

\* C13: for a serp_fallback envelope the response text is the expert-summary
\* and core-keyword preamble followed by the results, numbered from 1 in list
\* order, when serp_results is non-empty, and followed by the line
\* "No results found." when serp_results is empty or absent; the synthesis
\* does not throw in either case, so the Message is not the warning.
C13_SerpFallbackText ==
    [][ \A i \in 1..Len(qCalls), data \in SynthEnvelopes :
          (TagOf(data) = "serp_fallback"
             /\ QueryResolve(i, [kind |-> "json", data |-> data])) =>
            /\ Last(messages').response = SerpExpected(data)
            /\ Last(messages').response # WarningText
            /\ Last(messages').query = qCalls[i].query
      ]_vars

\* a serp_fallback envelope with two results has been rendered: the second
\* block carries the number 2
C13_Witness ==
    /\ Len(messages) = 1 /\ qCalls = <<>>
    /\ Len(messages[1].response) > 8
    /\ messages[1].response[6] = "**Web Results:**"
    /\ messages[1].response[8] = "1"
    /\ \E j \in 9..Len(messages[1].response) : messages[1].response[j] = "2"

\* C14: once new chat has cleared the log, no Message that was in it before
\* the reset is in it again: as a query settles, the log afterwards is the log
\* of that moment with the one new Message at its end, so that, where the
\* query was submitted before a reset and settles after it, the log holds
\* only what was appended after the reset.
C14_NoMessageBackAfterReset ==
    [][ /\ NewChat => messages' = <<>>
        /\ \A i \in 1..Len(qCalls), reply \in QueryReplies :
             QueryResolve(i, reply) =>
               /\ Len(messages') = Len(messages) + 1
               /\ SubSeq(messages', 1, Len(messages)) = messages
      ]_vars

\* C15: when two createSession calls overlap, the identifier that is active
\* after both have settled is the one returned to the call issued last, in
\* whichever order the two responses arrive.  Calls are issued in the order of
\* their fetch numbers, and both are answered with an identifier: the answer
\* to a call replaces no identifier that was returned to a call issued after
\* it, and the answer to the call issued last becomes the identifier.
C15_LastIssuedSessionWins ==
    [][ \A c \in sCalls :
          SessionResolve(c, "ok") =>
            /\ (\E k \in (c.k + 1)..MaxFetches : sessionId = IssuedId(k)) =>
                 sessionId' = sessionId
            /\ (\A d \in sCalls : d.k <= c.k) =>
                 (sessionId' = IssuedId(c.k)
                    \/ \E k \in (c.k + 1)..MaxFetches : sessionId = IssuedId(k))
      ]_vars

====
